---------------------------- MODULE Spec2Model ----------------------------
(***************************************************************************)
(* A model of simp_protocol: the packet codec (packet.rs), the single      *)
(* packet and fragmented transports (uart.rs) and the command client and   *)
(* server (sbt_client.rs, sbt_server.rs).  Bytes are the integers 0..255.  *)
(***************************************************************************)
EXTENDS Integers, Sequences, FiniteSets, TLC

\* ------------------------------------------------------------------ bounds
\* longest payload handed to the codec scenario
MaxPayloadLen == 3
\* bytes of a serialized packet the codec scenario may overwrite
MaxTamper == 1
\* largest retry count handed to send_packet_with_ack
MaxRetries == 3
\* bytes the line holds ready for the sender at any one time
MaxPending == 2
\* faults of the line in one run: bytes other than ACK that it feeds the sender
\* and, in mode "faults", wait windows that end without one
MaxFaults == 3
\* calls of one operation an endpoint makes in one run
MaxCalls == 2
\* longest buffer an endpoint sends a second time
MaxAgainLen == 2
\* frames at the head of the sender's stream the line may lose
MaxLost == 1
\* calls of run_non_blocking the server's loop makes
MaxCycles == 3

\* longest raw buffer handed to from_bytes
MaxRawLen == 5

\* bytes the read data holds after the frame receive_packet is to return
MaxFurtherLen == 2

\* calls of add_handler before the server is given a request
MaxHandlers == 3

\* requests, whole or broken, the read data of the server holds
MaxRequests == 2

\* --------------------------------------------------------------- constants
START_BYTE == 126
END_BYTE == 127
ESCAPE_BYTE == 125
ESCAPE_XOR == 32
ACK_BYTE == 6
NACK_BYTE == 21
\* u8 arithmetic wraps at 2^8
U8 == 256

Byte == 0 .. (U8 - 1)

\* ------------------------------------------------------------- packet codec
\* u8 ^ u8
RECURSIVE BitXor(_, _)
BitXor(a, b) ==
    IF a = 0 THEN b
    ELSE IF b = 0 THEN a
    ELSE (((a % 2) + (b % 2)) % 2) + (2 * BitXor(a \div 2, b \div 2))

\* u8::wrapping_add
wrapping_add(a, b) == (a + b) % U8

\* usize as u8
as_u8(n) == n % U8

\* The loops over a byte slice are evaluated by halving the slice, so that the
\* depth of evaluation stays logarithmic in its length.
RECURSIVE ChecksumRange(_, _, _)
\* the wrapping sum of payload[lo..hi]
ChecksumRange(payload, lo, hi) ==
    IF lo > hi THEN 0
    ELSE IF lo = hi THEN payload[lo]
    ELSE LET mid == (lo + hi) \div 2 IN
         wrapping_add(ChecksumRange(payload, lo, mid),
                      ChecksumRange(payload, mid + 1, hi))

\* Packet::calculate_checksum: fold(0u8, wrapping_add)
calculate_checksum(payload) == ChecksumRange(payload, 1, Len(payload))

\* variant: escape_payload escapes the two delimiters only
escape_byte_delimiters_only(byte) ==
    IF byte \in { START_BYTE, END_BYTE }
    THEN << ESCAPE_BYTE, BitXor(byte, ESCAPE_XOR) >>
    ELSE << byte >>

\* one step of the loop of escape_payload: what it pushes for byte
escape_byte(byte) ==
    IF byte \in { START_BYTE, END_BYTE, ESCAPE_BYTE }
    THEN << ESCAPE_BYTE, BitXor(byte, ESCAPE_XOR) >>
    ELSE << byte >>

RECURSIVE EscapeRange(_, _, _)
EscapeRange(payload, lo, hi) ==
    IF lo > hi THEN << >>
    ELSE IF lo = hi THEN escape_byte(payload[lo])
    ELSE LET mid == (lo + hi) \div 2 IN
         EscapeRange(payload, lo, mid) \o EscapeRange(payload, mid + 1, hi)

\* Packet::escape_payload
escape_payload(payload) == EscapeRange(payload, 1, Len(payload))

\* one step of the loop of unescape_payload: what it pushes for byte, and the
\* escape_next it leaves
unescape_byte(byte, escape_next) ==
    IF escape_next
    THEN [ out |-> << BitXor(byte, ESCAPE_XOR) >>, escape_next |-> FALSE ]
    ELSE IF byte = ESCAPE_BYTE
         THEN [ out |-> << >>, escape_next |-> TRUE ]
         ELSE [ out |-> << byte >>, escape_next |-> FALSE ]

\* the loop over two adjacent slices, given what it did over each
UnescapeJoin(left, right) ==
    [ out |-> left.out \o right.out, escape_next |-> right.escape_next ]

RECURSIVE UnescapeRange(_, _, _, _), UnescapeRest(_, _, _, _)
\* the loop of unescape_payload over payload[lo..hi], entered with escape_next
UnescapeRange(payload, lo, hi, escape_next) ==
    IF lo > hi THEN [ out |-> << >>, escape_next |-> escape_next ]
    ELSE IF lo = hi THEN unescape_byte(payload[lo], escape_next)
    ELSE UnescapeRest(payload, (lo + hi) \div 2, hi,
                      UnescapeRange(payload, lo, (lo + hi) \div 2, escape_next))

\* the loop over payload[mid+1..hi] after it did left over the slice before
UnescapeRest(payload, mid, hi, left) ==
    UnescapeJoin(left, UnescapeRange(payload, mid + 1, hi, left.escape_next))

\* Packet::unescape_payload
unescape_payload(payload) == UnescapeRange(payload, 1, Len(payload), FALSE).out

\* the Packet that Packet::new builds around escaped_payload
packet_of(escaped_payload) ==
    [ start_byte |-> START_BYTE,
      length     |-> as_u8(Len(escaped_payload)),
      payload    |-> escaped_payload,
      checksum   |-> calculate_checksum(escaped_payload),
      end_byte   |-> END_BYTE ]

\* Packet::new: the stored payload is the escaped one, length is its size as u8
Packet_new(payload) == packet_of(escape_payload(payload))

\* Packet::to_bytes
to_bytes(packet) ==
    << packet.start_byte, packet.length >> \o packet.payload
        \o << packet.checksum, packet.end_byte >>

\* Result<T, &'static str>
Ok(v) == [ ok |-> TRUE, val |-> v, err |-> "" ]
Err(e) == [ ok |-> FALSE, val |-> << >>, err |-> e ]

\* the checksum from_bytes recomputes: over the unescaped payload
from_bytes_checksum(payload) == calculate_checksum(unescape_payload(payload))

\* variant: from_bytes does not look at the last byte of the buffer
from_bytes_any_end(bytes) ==
    IF Len(bytes) < 4 \/ bytes[1] # START_BYTE
    THEN Err("Invalid packet structure")
    ELSE IF bytes[Len(bytes) - 1]
              # from_bytes_checksum(SubSeq(bytes, 3, Len(bytes) - 2))
         THEN Err("Checksum mismatch")
         ELSE Ok([ start_byte |-> START_BYTE,
                   length     |-> bytes[2],
                   payload    |-> unescape_payload(SubSeq(bytes, 3, Len(bytes) - 2)),
                   checksum   |-> bytes[Len(bytes) - 1],
                   end_byte   |-> END_BYTE ])

\* Packet::from_bytes
from_bytes(bytes) ==
    IF Len(bytes) < 4 \/ bytes[1] # START_BYTE \/ bytes[Len(bytes)] # END_BYTE
    THEN Err("Invalid packet structure")
    ELSE LET length   == bytes[2]
             checksum == bytes[Len(bytes) - 1]
             payload  == SubSeq(bytes, 3, Len(bytes) - 2)
         IN  IF checksum # from_bytes_checksum(payload)
             THEN Err("Checksum mismatch")
             ELSE Ok([ start_byte |-> START_BYTE,
                       length     |-> length,
                       payload    |-> unescape_payload(payload),
                       checksum   |-> checksum,
                       end_byte   |-> END_BYTE ])

\* -------------------------------------------------------------------- state
VARIABLES
    codec,  \* the codec scenario: a payload taken through new, to_bytes, from_bytes
    st,     \* per endpoint: the operation it runs, its position and its locals
    rx,     \* per endpoint: the bytes its Uart::read will return, oldest first
    io,     \* per endpoint: what it did on its Uart so far (write, read, timeout)
    env     \* the line: how the endpoints are joined, and what it did so far

vars == << codec, st, rx, io, env >>

Proc == { "a", "b" }
Peer(p) == IF p = "a" THEN "b" ELSE "a"

\* ----------------------------------------------------------------- the Uart
\* an endpoint that runs nothing
Idle ==
    [ op |-> "none", pc |-> "done", result |-> Err(""),
      \* send_packet_with_ack: packet, retries, the for loop's index
      packet |-> Packet_new(<< >>), retries |-> 0, attempt |-> 0,
      \* send_multiple_packets_with_ack: data, the chunk iterator's index, sequence
      data |-> << >>, chunk |-> 0, sequence |-> 0,
      \* receive_multiple_packets: data, expected_sequence
      rdata |-> << >>, expected_sequence |-> 0,
      \* receive_packet: buffer
      buffer |-> << >>,
      \* SbtClient::send_request: command, args
      command |-> 0, args |-> << >>,
      \* SbtServer: the arguments its handlers were invoked with in the current
      \* call of run_non_blocking, what receive_request returned to it (for
      \* SbtClient: what receive_multiple_packets returned to receive_response),
      \* and the calls of run_non_blocking that returned Ok to run
      invoked |-> << >>, received |-> Err(""), cycles |-> 0,
      \* SbtServer: handlers, the calls of add_handler that built it, and the
      \* request process_request was called with
      handlers |-> << >>, registered |-> << >>, request |-> << >> ]

\* link: "mock" (each endpoint reads what the line feeds it, as MockUart) or
\* "channel" (what one endpoint writes the other reads); mode: "any" (a wait
\* window may end and a write may fail at any time), "faults" (the windows
\* that end without an ACK and the writes that fail count as faults of the
\* line) or "acks" (the peer acknowledges every frame at once and the line
\* adds nothing)
EnvIdle == [ link |-> "mock", mode |-> "any", faults |-> 0, lost |-> 0 ]

WriteEvent(bytes) == [ op |-> "write", bytes |-> bytes ]
FailedWriteEvent(bytes) == [ op |-> "write_failed", bytes |-> bytes ]
ReadEvent(bytes) == [ op |-> "read", bytes |-> bytes ]
TimeoutEvent == [ op |-> "timeout", bytes |-> << >> ]
CallEvent == [ op |-> "call", bytes |-> << >> ]
NoneEvent == [ op |-> "none", bytes |-> << >> ]

\* Uart::write(data) by endpoint p: Ok(data.len())
UartWrite(p, bytes) ==
    /\ io' = [ io EXCEPT ![p] = Append(@, WriteEvent(bytes)) ]
    /\ rx' = IF env.link = "channel"
             THEN [ rx EXCEPT ![Peer(p)] = @ \o bytes ]
             ELSE rx

\* Uart::write(data) by endpoint p: Err(_), nothing goes out
UartWriteFails(p, bytes) ==
    /\ env.link = "mock"
    /\ env.mode # "acks"
    /\ env.mode = "faults" => env.faults < MaxFaults
    /\ env' = [ env EXCEPT !.faults = IF env.mode = "faults" THEN @ + 1 ELSE @ ]
    /\ io' = [ io EXCEPT ![p] = Append(@, FailedWriteEvent(bytes)) ]

\* Uart::read() by endpoint p returning Some(byte)
UartRead(p) ==
    /\ rx[p] # << >>
    /\ rx' = [ rx EXCEPT ![p] = Tail(@) ]
    /\ io' = [ io EXCEPT ![p] = Append(@, ReadEvent(<< Head(rx[p]) >>)) ]

\* Uart::read() by endpoint p returning None
UartReadNone(p) ==
    /\ rx[p] = << >>
    /\ io' = [ io EXCEPT ![p] = Append(@, NoneEvent) ]
    /\ UNCHANGED rx

\* ------------------------------------------------------ calls and returns
\* a top-level call returns
Return(l, res) == [ l EXCEPT !.pc = "done", !.result = res ]

\* the thread of the call unwinds on a panic
Panic(l, message) == [ l EXCEPT !.pc = "panicked", !.result = Err(message) ]

\* sequence.wrapping_add(1)
next_sequence(sequence) == wrapping_add(sequence, 1)

\* variant: a call of send_multiple_packets_with_ack goes on from the sequence
\* number the call before it ended with
send_multiple_call_resuming(l, data, retries) ==
    [ l EXCEPT !.pc = "sm_next", !.data = data, !.retries = retries, !.chunk = 0 ]

\* the call send_multiple_packets_with_ack(uart, data, retries, timeout)
send_multiple_call(l, data, retries) ==
    [ l EXCEPT !.pc = "sm_next", !.data = data, !.retries = retries,
               !.chunk = 0, !.sequence = 0 ]

\* the call receive_multiple_packets(uart)
receive_multiple_call(l) ==
    [ l EXCEPT !.pc = "rm_recv", !.rdata = << >>, !.expected_sequence = 0 ]

\* ------------------------------------------------------- client and server
Success == 0
InvalidRequest == 1
HandlerNotFound == 2
InternalError == 3

\* the retry count send_request passes
SEND_RETRIES == 3
\* the retry count send_response passes
RESPONSE_RETRIES == 3

\* push(arg.len() as u8); extend(arg)
push_arg(arg) == << as_u8(Len(arg)) >> \o arg

RECURSIVE PushRange(_, _, _)
\* the loop over args[lo..hi], evaluated by halving
PushRange(args, lo, hi) ==
    IF lo > hi THEN << >>
    ELSE IF lo = hi THEN push_arg(args[lo])
    ELSE PushRange(args, lo, (lo + hi) \div 2)
             \o PushRange(args, ((lo + hi) \div 2) + 1, hi)

\* for arg in args { push(arg.len() as u8); extend(arg) }
push_args(args) == PushRange(args, 1, Len(args))

\* the request send_request builds
request_of(command, args) == << command >> \o push_args(args)

create_response(response_code, args) ==
    << response_code, as_u8(Len(args)) >> \o push_args(args)

RECURSIVE split_args(_)
\* the arguments a handler finds in the bytes it is called with
split_args(bytes) ==
    IF bytes = << >> THEN << >>
    ELSE IF 1 + bytes[1] >= Len(bytes) THEN << Tail(bytes) >>
    ELSE << SubSeq(bytes, 2, 1 + bytes[1]) >>
             \o split_args(SubSeq(bytes, 2 + bytes[1], Len(bytes)))

\* a handler that answers Success and echoes its arguments
echo_handler(request) == create_response(Success, split_args(request))

ECHO_COMMAND == 1

\* the handlers of the tests of the server
test_handler_success(request) == << Success >>
test_handler_internal_error(request) == << InternalError >>

\* HashMap::new()
NoHandlers == << >>

\* variant: add_handler leaves a command that has a handler alone
add_handler_keeps_first(hs, command, handler) ==
    [ c \in DOMAIN hs \cup { command } |-> IF c \in DOMAIN hs THEN hs[c] ELSE handler ]

\* self.handlers.insert(command, handler) on the map hs
add_handler(hs, command, handler) ==
    [ c \in DOMAIN hs \cup { command } |-> IF c = command THEN handler ELSE hs[c] ]

\* the server's HashMap after add_handler(ECHO_COMMAND, echo_handler)
handlers == add_handler(NoHandlers, ECHO_COMMAND, "echo")

\* handler(request) for a handler of the map
handler_call(handler, request) ==
    IF handler = "success" THEN test_handler_success(request)
    ELSE IF handler = "internal_error" THEN test_handler_internal_error(request)
    ELSE echo_handler(request)

\* process_request of server l: the response, and the arguments of the handler
\* invocations it made, in order
process_request(l, request) ==
    IF request = << >>
    THEN [ response |-> create_response(InvalidRequest, << >>), invoked |-> << >> ]
    ELSE IF request[1] \notin DOMAIN l.handlers
    THEN [ response |-> create_response(HandlerNotFound, << >>), invoked |-> << >> ]
    ELSE [ response |-> handler_call(l.handlers[request[1]], Tail(request)),
           invoked  |-> << request, Tail(request) >> ]

\* Ok(request) in run_non_blocking: process_request, then send_response
respond(l, processed) ==
    send_multiple_call([ l EXCEPT !.invoked = @ \o processed.invoked ],
                       processed.response, RESPONSE_RETRIES)

\* run_non_blocking returned Ok(()) to the loop of run
run_again(l) == [ l EXCEPT !.pc = "rnb", !.cycles = @ + 1 ]

\* an index out of bounds in the loop of receive_response
NoArgs == [ panic |-> TRUE, args |-> << >>, index |-> 0 ]

\* one iteration of the loop `for i in 0..arg_count` of receive_response, with
\* response_index at the index-th byte of response (counted from 1): the
\* argument it pushes and the response_index it leaves
read_arg(response, index) ==
    IF index > Len(response) THEN NoArgs
    ELSE IF index + response[index] > Len(response) THEN NoArgs
    ELSE [ panic |-> FALSE,
           args  |-> << SubSeq(response, index + 1, index + response[index]) >>,
           index |-> index + 1 + response[index] ]

RECURSIVE read_args(_, _, _), read_more(_, _, _)
\* count iterations of that loop from response_index = index, evaluated by
\* halving
read_args(response, index, count) ==
    IF count = 0 THEN [ panic |-> FALSE, args |-> << >>, index |-> index ]
    ELSE IF count = 1 THEN read_arg(response, index)
    ELSE read_more(response, count - (count \div 2),
                   read_args(response, index, count \div 2))

\* count more iterations after those that did first
read_more(response, count, first) ==
    IF first.panic THEN NoArgs
    ELSE LET rest == read_args(response, first.index, count)
         IN  IF rest.panic THEN NoArgs
             ELSE [ rest EXCEPT !.args = first.args \o @ ]

SbtResponse_new(response_code, args) == [ response_code |-> response_code, args |-> args ]

\* variant: receive_response takes the second byte of the response for its
\* response_code
response_with_count_as_code(l, response, read) ==
    IF read.panic THEN Panic(l, "index out of bounds")
    ELSE Return(l, Ok(SbtResponse_new(response[2], read.args)))

\* the Ok arm of receive_response on the arguments its loop read
response_with(l, response, read) ==
    IF read.panic THEN Panic(l, "index out of bounds")
    ELSE Return(l, Ok(SbtResponse_new(response[1], read.args)))

\* the Ok arm of receive_response
receive_response(l, response) ==
    IF Len(response) < 2 THEN Panic(l, "index out of bounds")
    ELSE response_with(l, response, read_args(response, 3, response[2]))

\* ------------------------------------------------- single-packet transport
\* variant: send_request calls receive_response whatever
\* send_multiple_packets_with_ack returned
sm_return_reads_on(l, res) ==
    IF l.op = "send_request" THEN receive_multiple_call(l)
    ELSE IF l.op = "run"
    THEN (IF res.ok THEN run_again(l) ELSE Return(l, res))
    ELSE Return(l, res)

\* send_multiple_packets_with_ack returns res to its caller: the user,
\* send_request or run_non_blocking through send_response
sm_return(l, res) ==
    IF l.op = "send_request"
    THEN (IF res.ok THEN receive_multiple_call(l) ELSE Return(l, res))
    ELSE IF l.op = "run"
    THEN (IF res.ok THEN run_again(l) ELSE Return(l, res))
    ELSE Return(l, res)

\* variant: send_multiple_packets_with_ack goes on to the next chunk whatever
\* send_packet_with_ack returned
swa_return_ignores_error(l, res) ==
    IF l.op = "send_packet_with_ack" THEN Return(l, res)
    ELSE [ l EXCEPT !.sequence = next_sequence(@), !.chunk = @ + 1,
                    !.pc = "sm_next" ]

\* send_packet_with_ack returns res to its caller: the user, or the `?` and the
\* rest of the loop body of send_multiple_packets_with_ack
swa_return(l, res) ==
    IF l.op = "send_packet_with_ack" THEN Return(l, res)
    ELSE IF res.ok
         THEN [ l EXCEPT !.sequence = next_sequence(@), !.chunk = @ + 1,
                         !.pc = "sm_next" ]
         ELSE sm_return(l, res)

\* variant: the for loop runs once more than `retries` times
has_attempt_inclusive(l) == l.attempt <= l.retries

\* `for _ in 0..retries` has an iteration left
has_attempt(l) == l.attempt < l.retries

\* the head of the for loop with an iteration left: send_packet returns Ok
SwaSend(p) ==
    /\ st[p].pc = "swa_send"
    /\ has_attempt(st[p])
    /\ UartWrite(p, to_bytes(st[p].packet))
    /\ st' = [ st EXCEPT ![p].pc = "swa_wait" ]
    /\ UNCHANGED << codec, env >>

\* the head of the for loop with an iteration left: send_packet returns
\* Err("Failed to send packet"), which the `?` returns
SwaSendFails(p) ==
    /\ st[p].pc = "swa_send"
    /\ has_attempt(st[p])
    /\ UartWriteFails(p, to_bytes(st[p].packet))
    /\ st' = [ st EXCEPT ![p] = swa_return(@, Err("Failed to send packet")) ]
    /\ UNCHANGED << codec, rx >>

\* the for loop is over: Err("Failed to send packet after retries")
SwaGiveUp(p) ==
    /\ st[p].pc = "swa_send"
    /\ ~has_attempt(st[p])
    /\ st' = [ st EXCEPT ![p] = swa_return(@, Err("Failed to send packet after retries")) ]
    /\ UNCHANGED << codec, rx, io, env >>

\* variant: the wait window takes NACK for ACK and ACK for NACK
swa_on_byte_swapped(l, response) ==
    IF response = NACK_BYTE THEN swa_return(l, Ok(<< >>))
    ELSE IF response = ACK_BYTE
         THEN [ l EXCEPT !.attempt = @ + 1, !.pc = "swa_send" ]
         ELSE l

\* variant: the transmission that follows a NACK is not counted
swa_on_byte_nack_uncounted(l, response) ==
    IF response = ACK_BYTE THEN swa_return(l, Ok(<< >>))
    ELSE IF response = NACK_BYTE
         THEN [ l EXCEPT !.pc = "swa_send" ]
         ELSE l

\* what the wait window does with a byte it read
swa_on_byte(l, response) ==
    IF response = ACK_BYTE THEN swa_return(l, Ok(<< >>))
    ELSE IF response = NACK_BYTE
         THEN [ l EXCEPT !.attempt = @ + 1, !.pc = "swa_send" ]
         ELSE l

\* inside the window: uart.read() returns Some(response)
SwaRead(p) ==
    /\ st[p].pc = "swa_wait"
    /\ UartRead(p)
    /\ st' = [ st EXCEPT ![p] = swa_on_byte(@, Head(rx[p])) ]
    /\ UNCHANGED << codec, env >>

\* start_time.elapsed() >= timeout: the window is over, next iteration (on a
\* channel the window outlasts the reading of the bytes that are there)
SwaTimeout(p) ==
    /\ st[p].pc = "swa_wait"
    /\ env.link = "channel" => rx[p] = << >>
    /\ env.mode # "acks"
    /\ env.mode = "faults" => env.faults < MaxFaults
    /\ env' = [ env EXCEPT !.faults = IF env.mode = "faults" THEN @ + 1 ELSE @ ]
    /\ io' = [ io EXCEPT ![p] = Append(@, TimeoutEvent) ]
    /\ st' = [ st EXCEPT ![p].attempt = @ + 1, ![p].pc = "swa_send" ]
    /\ UNCHANGED << codec, rx >>

\* a if it is an index, else b
OrElse(a, b) == IF a # 0 THEN a ELSE b

RECURSIVE FirstEnd(_, _, _)
\* the index of the first END_BYTE in q[lo..hi], 0 if there is none
FirstEnd(q, lo, hi) ==
    IF lo > hi THEN 0
    ELSE IF lo = hi THEN (IF q[lo] = END_BYTE THEN lo ELSE 0)
    ELSE OrElse(FirstEnd(q, lo, (lo + hi) \div 2),
                FirstEnd(q, ((lo + hi) \div 2) + 1, hi))

\* receive_packet on read queue q whose first END_BYTE is at e (0: none, and
\* read() returns None once q is exhausted): the bytes read and the result
receive_packet_to(q, e) ==
    IF e = 0
    THEN [ used |-> Len(q), res |-> Err("Failed to receive packet") ]
    ELSE [ used |-> e, res |-> from_bytes(SubSeq(q, 1, e)) ]

\* receive_packet on an endpoint whose read queue is q
receive_packet(q) == receive_packet_to(q, FirstEnd(q, 1, Len(q)))

\* the call receive_packet(uart)
receive_packet_call(l) == [ l EXCEPT !.pc = "rp_read", !.buffer = << >> ]

\* the body of `while let Some(byte) = uart.read()` on the buffer with byte
\* pushed: from_bytes at END_BYTE, else the loop goes on
rp_on_buffer(l, buffer, byte) ==
    IF byte = END_BYTE
    THEN Return([ l EXCEPT !.buffer = buffer ], from_bytes(buffer))
    ELSE [ l EXCEPT !.buffer = buffer ]

\* variant: when read() returns None the bytes read so far are parsed
rp_on_none_parses(l) == Return(l, from_bytes(l.buffer))

\* read() returned None: the loop is over
rp_on_none(l) == Return(l, Err("Failed to receive packet"))

\* receive_packet called on its own: read() returns Some(byte)
RpRead(p) ==
    /\ st[p].op = "receive_packet" /\ st[p].pc = "rp_read"
    /\ UartRead(p)
    /\ st' = [ st EXCEPT ![p] = rp_on_buffer(@, Append(@.buffer, Head(rx[p])), Head(rx[p])) ]
    /\ UNCHANGED << codec, env >>

\* receive_packet called on its own: read() returns None
RpNone(p) ==
    /\ st[p].op = "receive_packet" /\ st[p].pc = "rp_read"
    /\ UartReadNone(p)
    /\ st' = [ st EXCEPT ![p] = rp_on_none(@) ]
    /\ UNCHANGED << codec, env >>

\* ---------------------------------------------------- fragmented transport
max_payload_size == 250
\* the size below which receive_multiple_packets takes a packet for the last
final_below == 250

\* data.chunks(max_payload_size): the k-th chunk, k from 0
Chunk(data, k) ==
    SubSeq(data, (k * max_payload_size) + 1,
           IF (k + 1) * max_payload_size < Len(data)
           THEN (k + 1) * max_payload_size ELSE Len(data))

\* the chunk iterator has a k-th chunk
HasChunk(data, k) == k * max_payload_size < Len(data)

\* vec![sequence] extended by the chunk
packet_data(sequence, chunk) == << sequence >> \o chunk

\* the head of `for chunk in data.chunks(..)`: build the packet and call
\* send_packet_with_ack, or leave the loop and return Ok(())
SmNext(p) ==
    /\ st[p].pc = "sm_next"
    /\ LET l == st[p] IN
       st' = [ st EXCEPT ![p] =
                 IF HasChunk(l.data, l.chunk)
                 THEN [ l EXCEPT !.packet = Packet_new(packet_data(l.sequence,
                                                  Chunk(l.data, l.chunk))),
                                 !.attempt = 0, !.pc = "swa_send" ]
                 ELSE sm_return(l, Ok(<< >>)) ]
    /\ UNCHANGED << codec, rx, io, env >>

\* variant: run_non_blocking answers a failed receive_request through
\* send_response
rm_return_framed(l, res) ==
    IF l.op = "run"
    THEN respond([ l EXCEPT !.received = res ],
                 IF res.ok THEN process_request(l, res.val)
                 ELSE [ response |-> create_response(InvalidRequest, << >>),
                        invoked  |-> << >> ])
    ELSE Return(l, res)

\* receive_multiple_packets returns res to its caller: the user,
\* receive_response or run_non_blocking through receive_request
rm_return(l, res) ==
    IF l.op = "send_request"
    THEN (IF res.ok THEN receive_response([ l EXCEPT !.received = res ], res.val)
          ELSE Return([ l EXCEPT !.received = res ], res))
    ELSE IF l.op = "run"
    THEN (IF res.ok
          THEN respond([ l EXCEPT !.received = res ], process_request(l, res.val))
          ELSE [ l EXCEPT !.pc = "rnb_err", !.received = res ])
    ELSE Return(l, res)

\* variant: the loop of receive_multiple_packets takes a packet of any
\* sequence byte
rm_iteration_any_order(l, res) ==
    IF ~res.ok THEN rm_return(l, res)
    ELSE IF res.val.payload = << >>
         THEN rm_return(l, Err("Empty packet received"))
    ELSE LET data == l.rdata \o Tail(res.val.payload)
             ll   == [ l EXCEPT !.rdata = data,
                                !.expected_sequence = next_sequence(@) ]
         IN  IF Len(res.val.payload) < final_below
             THEN rm_return(ll, Ok(data))
             ELSE ll

\* variant: the loop of receive_multiple_packets takes a packet of 250 bytes
\* for the last one too
rm_iteration_ends_at_full(l, res) ==
    IF ~res.ok THEN rm_return(l, res)
    ELSE IF res.val.payload = << >>
         THEN rm_return(l, Err("Empty packet received"))
    ELSE IF res.val.payload[1] # l.expected_sequence
         THEN rm_return(l, Err("Packet sequence out of order"))
    ELSE LET data == l.rdata \o Tail(res.val.payload)
             ll   == [ l EXCEPT !.rdata = data,
                                !.expected_sequence = next_sequence(@) ]
         IN  IF Len(res.val.payload) <= final_below
             THEN rm_return(ll, Ok(data))
             ELSE ll

\* one iteration of the loop of receive_multiple_packets on the result of its
\* receive_packet
rm_iteration(l, res) ==
    IF ~res.ok THEN rm_return(l, res)
    ELSE IF res.val.payload = << >>
         THEN rm_return(l, Err("Empty packet received"))
    ELSE IF res.val.payload[1] # l.expected_sequence
         THEN rm_return(l, Err("Packet sequence out of order"))
    ELSE LET data == l.rdata \o Tail(res.val.payload)
             ll   == [ l EXCEPT !.rdata = data,
                                !.expected_sequence = next_sequence(@) ]
         IN  IF Len(res.val.payload) < final_below
             THEN rm_return(ll, Ok(data))
             ELSE ll

\* variant: the receiver writes an ACK for every packet receive_packet returns
\* and a NACK for every one it refuses
RmStepAcknowledging(p, r) ==
    /\ io' = [ io EXCEPT ![p] =
                 @ \o << ReadEvent(SubSeq(rx[p], 1, r.used)),
                         WriteEvent(<< IF r.res.ok THEN ACK_BYTE ELSE NACK_BYTE >>) >> ]
    /\ rx' = [ rx EXCEPT ![p] = SubSeq(@, r.used + 1, Len(@)) ]
    /\ st' = [ st EXCEPT ![p] = rm_iteration(@, r.res) ]

\* an iteration of receive_multiple_packets by p whose receive_packet did r
RmStep(p, r) ==
    /\ io' = [ io EXCEPT ![p] = Append(@, ReadEvent(SubSeq(rx[p], 1, r.used))) ]
    /\ rx' = [ rx EXCEPT ![p] = SubSeq(@, r.used + 1, Len(@)) ]
    /\ st' = [ st EXCEPT ![p] = rm_iteration(@, r.res) ]

RmRecv(p) ==
    /\ st[p].pc = "rm_recv"
    /\ RmStep(p, receive_packet(rx[p]))
    /\ UNCHANGED << codec, env >>

\* ------------------------------------------------------------ the server
\* the loop of run calls run_non_blocking, which calls receive_request
RunNonBlocking(p) ==
    /\ st[p].op = "run" /\ st[p].pc = "rnb"
    /\ st[p].cycles < MaxCycles
    /\ st' = [ st EXCEPT ![p] = receive_multiple_call(
                                    [ @ EXCEPT !.invoked = << >>, !.received = Err("") ]) ]
    /\ io' = [ io EXCEPT ![p] = Append(@, CallEvent) ]
    /\ UNCHANGED << codec, rx, env >>

\* the Err arm of run_non_blocking: the raw status byte, and Ok(())
RnbInvalidRequest(p) ==
    /\ st[p].op = "run" /\ st[p].pc = "rnb_err"
    /\ UartWrite(p, << InvalidRequest >>)
    /\ st' = [ st EXCEPT ![p] = run_again(@) ]
    /\ UNCHANGED << codec, env >>

\* the Err arm of run_non_blocking on a Uart whose write fails: unwrap panics
RnbInvalidRequestFails(p) ==
    /\ st[p].op = "run" /\ st[p].pc = "rnb_err"
    /\ UartWriteFails(p, << InvalidRequest >>)
    /\ st' = [ st EXCEPT ![p] = Panic(@, "called Result::unwrap() on an Err value") ]
    /\ UNCHANGED << codec, rx >>

\* ----------------------------------------------------------- codec scenario
\* byte values the codec scenario builds payloads from: an ordinary byte, the
\* image of an escaped byte, and the three reserved bytes
CodecBytes == { 1, 93, ESCAPE_BYTE, START_BYTE, END_BYTE }

RECURSIVE SeqsUpTo(_, _)
SeqsUpTo(S, n) ==
    IF n = 0 THEN { << >> }
    ELSE LET shorter == SeqsUpTo(S, n - 1)
         IN  shorter \cup { Append(s, b) : s \in shorter, b \in S }

CodecPayloads == SeqsUpTo(CodecBytes, MaxPayloadLen)

CodecIdle ==
    [ stage |-> "none", payload |-> << >>, bytes |-> << >>,
      tampered |-> 0, parsed |-> Err(""), unescaped |-> << >> ]

InitCodec ==
    /\ \E p \in CodecPayloads :
          codec = [ CodecIdle EXCEPT !.stage = "payload", !.payload = p ]
    /\ st = [ p \in Proc |-> Idle ]
    /\ rx = [ p \in Proc |-> << >> ]
    /\ io = [ p \in Proc |-> << >> ]
    /\ env = EnvIdle

\* let packet = Packet::new(payload); let bytes = packet.to_bytes();
CodecSerialize ==
    /\ codec.stage = "payload"
    /\ codec' = [ codec EXCEPT !.stage = "bytes",
                               !.bytes = to_bytes(Packet_new(codec.payload)) ]
    /\ UNCHANGED << st, rx, io, env >>

\* the line overwrites one byte of the serialized packet
CodecTamper ==
    /\ codec.stage = "bytes"
    /\ codec.tampered < MaxTamper
    /\ \E i \in 1 .. Len(codec.bytes) :
       \E b \in (IF i = Len(codec.bytes) - 1 THEN Byte ELSE CodecBytes) :
          /\ b # codec.bytes[i]
          /\ codec' = [ codec EXCEPT !.bytes[i] = b, !.tampered = @ + 1 ]
    /\ UNCHANGED << st, rx, io, env >>

\* Packet::from_bytes(&bytes)
CodecParse ==
    /\ codec.stage = "bytes"
    /\ codec' = [ codec EXCEPT !.stage = "parsed", !.parsed = from_bytes(codec.bytes) ]
    /\ UNCHANGED << st, rx, io, env >>

NextCodec == CodecSerialize \/ CodecTamper \/ CodecParse

SpecCodec == InitCodec /\ [][NextCodec]_vars

\* ------------------------------------- scenario: escape and unescape a payload
\* every payload of one byte, and the payloads of the codec scenario
EscapePayloads == { << b >> : b \in Byte } \cup CodecPayloads

InitEscape ==
    /\ \E p \in EscapePayloads :
          codec = [ CodecIdle EXCEPT !.stage = "payload", !.payload = p ]
    /\ st = [ p \in Proc |-> Idle ]
    /\ rx = [ p \in Proc |-> << >> ]
    /\ io = [ p \in Proc |-> << >> ]
    /\ env = EnvIdle

\* let escaped = Packet::escape_payload(&payload);
CodecEscape ==
    /\ codec.stage = "payload"
    /\ codec' = [ codec EXCEPT !.stage = "escaped",
                               !.bytes = escape_payload(codec.payload) ]
    /\ UNCHANGED << st, rx, io, env >>

\* let unescaped = Packet::unescape_payload(&escaped);
CodecUnescape ==
    /\ codec.stage = "escaped"
    /\ codec' = [ codec EXCEPT !.stage = "unescaped",
                               !.unescaped = unescape_payload(codec.bytes) ]
    /\ UNCHANGED << st, rx, io, env >>

NextEscape == CodecEscape \/ CodecUnescape

SpecEscape == InitEscape /\ [][NextEscape]_vars

\* ------------------------------------------- scenario: from_bytes on a buffer
\* byte values of the raw buffers: ordinary bytes and the three reserved ones
RawBytes == { 0, 1, 2, START_BYTE, END_BYTE, ESCAPE_BYTE }

RawBuffers == SeqsUpTo(RawBytes, MaxRawLen)

InitParse ==
    /\ \E bytes \in RawBuffers :
          codec = [ CodecIdle EXCEPT !.stage = "bytes", !.bytes = bytes ]
    /\ st = [ p \in Proc |-> Idle ]
    /\ rx = [ p \in Proc |-> << >> ]
    /\ io = [ p \in Proc |-> << >> ]
    /\ env = EnvIdle

NextParse == CodecParse

SpecParse == InitParse /\ [][NextParse]_vars

\* ------------------------------------------------------------------ the line
\* a byte that is neither ACK nor NACK: the raw status byte a server writes
\* when it has received no request
OTHER_BYTE == InvalidRequest

\* the line hands the sender "a", which waits for an acknowledgement, one more
\* byte to read
EnvByte(b) ==
    /\ env.link = "mock"
    /\ st["a"].pc = "swa_wait"
    /\ IF env.mode = "acks"
       THEN b = ACK_BYTE /\ rx["a"] = << >>
       ELSE Len(rx["a"]) < MaxPending /\ (b = ACK_BYTE \/ env.faults < MaxFaults)
    /\ rx' = [ rx EXCEPT !["a"] = Append(@, b) ]
    /\ env' = [ env EXCEPT !.faults = IF b = ACK_BYTE THEN @ ELSE @ + 1 ]
    /\ UNCHANGED << codec, st, io >>

RECURSIVE EventBytes(_, _, _, _)
\* the bytes of the events of kind op among the events lo..hi of trace t
EventBytes(t, op, lo, hi) ==
    IF lo > hi THEN << >>
    ELSE IF lo = hi THEN (IF t[lo].op = op THEN t[lo].bytes ELSE << >>)
    ELSE EventBytes(t, op, lo, (lo + hi) \div 2)
             \o EventBytes(t, op, ((lo + hi) \div 2) + 1, hi)

\* the bytes of the write events of trace t from its i-th event on
WrittenFrom(t, i) == EventBytes(t, "write", i, Len(t))

\* the write events of a trace
Writes(t) == SelectSeq(t, LAMBDA e : e.op = "write")

\* MockUart::get_written_data
get_written_data(p) == WrittenFrom(io[p], 1)

\* the sender has returned: what it wrote, less the first k frames, is what
\* the receiver "b" finds on its Uart when it calls receive_multiple_packets
Deliver(k) ==
    /\ env.link = "mock"
    /\ st["a"].op = "send_multiple" /\ st["a"].pc = "done"
    /\ st["b"].op = "none"
    /\ k <= Len(Writes(io["a"]))
    /\ rx' = [ rx EXCEPT !["b"] = WrittenFrom(Writes(io["a"]), k + 1) ]
    /\ st' = [ st EXCEPT !["b"] =
                 receive_multiple_call([ Idle EXCEPT !.op = "receive_multiple" ]) ]
    /\ env' = [ env EXCEPT !.lost = k ]
    /\ UNCHANGED << codec, io >>

\* the number of calls endpoint p has made
Calls(p) == 1 + Len(SelectSeq(io[p], LAMBDA e : e.op = "call"))

\* the sender's call has returned, and it calls send_multiple_packets_with_ack
\* on the same buffer again
SendAgain ==
    /\ st["a"].op = "send_multiple" /\ st["a"].pc = "done"
    /\ st["b"].op = "none"
    /\ Len(st["a"].data) <= MaxAgainLen
    /\ Calls("a") < MaxCalls
    /\ st' = [ st EXCEPT !["a"] = send_multiple_call(@, @.data, @.retries) ]
    /\ io' = [ io EXCEPT !["a"] = Append(@, CallEvent) ]
    /\ UNCHANGED << codec, rx, env >>

\* the receiver's call has returned with bytes left to read, and it calls
\* receive_multiple_packets again
RecvAgain ==
    /\ st["b"].op = "receive_multiple" /\ st["b"].pc = "done"
    /\ rx["b"] # << >>
    /\ Calls("b") < MaxCalls
    /\ st' = [ st EXCEPT !["b"] = receive_multiple_call(@) ]
    /\ io' = [ io EXCEPT !["b"] = Append(@, CallEvent) ]
    /\ UNCHANGED << codec, rx, env >>

\* ------------------------------------------- scenario: send_packet_with_ack
AckPayloads == { << 1, 2, 3 >>, << >>, << START_BYTE, ACK_BYTE >> }

InitAck ==
    /\ codec = CodecIdle
    /\ \E payload \in AckPayloads, n \in 0 .. MaxRetries :
          st = [ p \in Proc |->
                   IF p = "a"
                   THEN [ Idle EXCEPT !.op = "send_packet_with_ack", !.pc = "swa_send",
                                      !.packet = Packet_new(payload), !.retries = n,
                                      !.attempt = 0 ]
                   ELSE Idle ]
    /\ rx = [ p \in Proc |-> << >> ]
    /\ io = [ p \in Proc |-> << >> ]
    /\ env = EnvIdle

NextAck ==
    \/ SwaSend("a")
    \/ SwaSendFails("a")
    \/ SwaGiveUp("a")
    \/ SwaRead("a")
    \/ SwaTimeout("a")
    \/ \E b \in { ACK_BYTE, NACK_BYTE, OTHER_BYTE } : EnvByte(b)

SpecAck == InitAck /\ [][NextAck]_vars

\* the sender's thread runs and its clock advances
SpecAckLive ==
    SpecAck /\ WF_vars(SwaSend("a") \/ SwaGiveUp("a") \/ SwaTimeout("a"))

\* ---------------------------- scenario: send_multiple then receive_multiple
Fill(b, n) == SubSeq([ i \in 1 .. n |-> b ], 1, n)

\* buffers sent over a line that may commit faults
FragData ==
    { Fill(1, n) : n \in { 0, 1, 126, 249, 250, 251 } }
        \cup { << START_BYTE >>, << 64, 63 >>, Fill(END_BYTE, 250) }

\* buffers sent with every frame acknowledged at once, the last one of more
\* than 256 fragments
AckedData == { Fill(1, n) : n \in { 500, 600, 800, (U8 * max_payload_size) + 1 } }

FragInputs ==
    { << d, "faults" >> : d \in FragData } \cup { << d, "acks" >> : d \in AckedData }

InitFrag ==
    /\ codec = CodecIdle
    /\ \E input \in FragInputs :
          /\ st = [ p \in Proc |->
                      IF p = "a"
                      THEN send_multiple_call([ Idle EXCEPT !.op = "send_multiple" ],
                                              input[1], SEND_RETRIES)
                      ELSE Idle ]
          /\ env = [ EnvIdle EXCEPT !.mode = input[2] ]
    /\ rx = [ p \in Proc |-> << >> ]
    /\ io = [ p \in Proc |-> << >> ]

NextFrag ==
    \/ SmNext("a")
    \/ SwaSend("a")
    \/ SwaSendFails("a")
    \/ SwaGiveUp("a")
    \/ SwaRead("a")
    \/ SwaTimeout("a")
    \/ \E b \in { ACK_BYTE, NACK_BYTE, OTHER_BYTE } : EnvByte(b)
    \/ \E k \in 0 .. MaxLost : Deliver(k)
    \/ RmRecv("b")
    \/ SendAgain
    \/ RecvAgain

SpecFrag == InitFrag /\ [][NextFrag]_vars

\* ------------------------------------------------ scenario: receive_packet
\* payloads of the packet the read data starts with: the one of
\* test_receive_packet_success, the empty one, one whose bytes sum to 0x7F and
\* one of 0x7F bytes
RecvPayloads == { << 1, 2, 3 >>, << >>, << 63, 64 >>, Fill(1, END_BYTE) }

FurtherBytes == { 1, START_BYTE, END_BYTE }

\* what set_read_data is given: the bytes of the packet followed by further
\* bytes, or only the first bytes of the packet
ReadData(frame) ==
    { frame \o further : further \in SeqsUpTo(FurtherBytes, MaxFurtherLen) }
        \cup { SubSeq(frame, 1, cut) : cut \in 0 .. (Len(frame) - 1) }

InitRecv ==
    /\ codec = CodecIdle
    /\ \E payload \in RecvPayloads :
       \E read_data \in ReadData(to_bytes(Packet_new(payload))) :
          /\ st = [ p \in Proc |->
                      IF p = "b"
                      THEN receive_packet_call([ Idle EXCEPT !.op = "receive_packet",
                                                           !.packet = Packet_new(payload) ])
                      ELSE Idle ]
          /\ rx = [ p \in Proc |-> IF p = "b" THEN read_data ELSE << >> ]
    /\ io = [ p \in Proc |-> << >> ]
    /\ env = EnvIdle

NextRecv == RpRead("b") \/ RpNone("b")

SpecRecv == InitRecv /\ [][NextRecv]_vars

\* the receiver's thread runs
SpecRecvLive == SpecRecv /\ WF_vars(NextRecv)

\* ----------------------------------------------- scenario: process_request
HandlerNames == { "echo", "success", "internal_error" }

\* the commands of test_process_request
DispatchCommands == { 0, 1 }

\* requests: the empty one, those of the tests of process_request, and one for
\* a command that is never registered
DispatchRequests ==
    { << >>, << 0, 1, 3 >>, << 0, 3 >>, << 1, 3 >>, << 1 >>, << 2, 1, 3 >> }

InitDispatch ==
    /\ codec = CodecIdle
    /\ st = [ p \in Proc |->
                IF p = "b"
                THEN [ Idle EXCEPT !.op = "process_request", !.pc = "idle",
                                   !.handlers = NoHandlers ]
                ELSE Idle ]
    /\ rx = [ p \in Proc |-> << >> ]
    /\ io = [ p \in Proc |-> << >> ]
    /\ env = EnvIdle

\* server.add_handler(command, handler)
AddHandler(p, command, handler) ==
    /\ st[p].op = "process_request" /\ st[p].pc = "idle"
    /\ Len(st[p].registered) < MaxHandlers
    /\ st' = [ st EXCEPT ![p].handlers = add_handler(@, command, handler),
                         ![p].registered = Append(@, << command, handler >>) ]
    /\ UNCHANGED << codec, rx, io, env >>

\* what process_request leaves of the server
processed(l, request, done) ==
    [ Return(l, Ok(done.response)) EXCEPT !.request = request,
                                          !.invoked = @ \o done.invoked ]

\* let response = server.process_request(request)
ProcessRequest(p, request) ==
    /\ st[p].op = "process_request" /\ st[p].pc = "idle"
    /\ st' = [ st EXCEPT ![p] = processed(@, request, process_request(@, request)) ]
    /\ UNCHANGED << codec, rx, io, env >>

NextDispatch ==
    \/ \E command \in DispatchCommands, handler \in HandlerNames :
          AddHandler("b", command, handler)
    \/ \E request \in DispatchRequests : ProcessRequest("b", request)

SpecDispatch == InitDispatch /\ [][NextDispatch]_vars

\* ------------------------------------------ scenario: a server on a MockUart
\* the frame of a request that comes as a single fragment
RequestFrame(request) == to_bytes(Packet_new(packet_data(0, request)))

\* what the read data holds for one request: a request for the echo command
\* that nobody acknowledges the response to; the same, one for a command
\* without a handler and the empty request, each followed by the ACK of the
\* response; the packet of test_receive_request_failure, whose sequence byte
\* is 1; a frame whose checksum byte is wrong; a packet without payload; and
\* an end delimiter that ends no frame
Exchanges ==
    { RequestFrame(request_of(ECHO_COMMAND, << << 1, 2, 3 >> >>)),
      RequestFrame(request_of(ECHO_COMMAND, << << 1, 2, 3 >> >>)) \o << ACK_BYTE >>,
      RequestFrame(request_of(2, << >>)) \o << ACK_BYTE >>,
      RequestFrame(<< >>) \o << ACK_BYTE >>,
      to_bytes(Packet_new(<< 1, 1, 3 >>)),
      << START_BYTE, 2, 0, 1, 9, END_BYTE >>,
      to_bytes(Packet_new(<< >>)),
      << 1, END_BYTE >> }

RECURSIVE ExchangesUpTo(_)
\* the read data of up to n exchanges
ExchangesUpTo(n) ==
    IF n = 0 THEN { << >> }
    ELSE LET shorter == ExchangesUpTo(n - 1)
         IN  shorter \cup { s \o e : s \in shorter, e \in Exchanges }

InitServer ==
    /\ codec = CodecIdle
    /\ st = [ p \in Proc |->
                IF p = "b"
                THEN [ Idle EXCEPT !.op = "run", !.pc = "rnb", !.handlers = handlers ]
                ELSE Idle ]
    /\ \E read_data \in ExchangesUpTo(MaxRequests) :
          rx = [ p \in Proc |-> IF p = "b" THEN read_data ELSE << >> ]
    /\ io = [ p \in Proc |-> << >> ]
    /\ env = EnvIdle

NextServer ==
    \/ RunNonBlocking("b")
    \/ RmRecv("b")
    \/ RnbInvalidRequest("b")
    \/ RnbInvalidRequestFails("b")
    \/ SmNext("b")
    \/ SwaSend("b")
    \/ SwaSendFails("b")
    \/ SwaGiveUp("b")
    \/ SwaRead("b")
    \/ SwaTimeout("b")

SpecServer == InitServer /\ [][NextServer]_vars

\* ------------------------------------ scenario: a client and a server joined
\* the requests the client makes: the echo command with one argument, a
\* command no handler is registered for, and the echo command with an
\* argument that holds the ACK byte
E2ERequests ==
    { << ECHO_COMMAND, << << 1, 2, 3 >> >> >>,
      << 2, << >> >>,
      << ECHO_COMMAND, << << ACK_BYTE >> >> >> }

InitE2E ==
    /\ codec = CodecIdle
    /\ \E request \in E2ERequests :
          st = [ p \in Proc |->
                   IF p = "a"
                   THEN send_multiple_call(
                            [ Idle EXCEPT !.op = "send_request",
                                          !.command = request[1], !.args = request[2] ],
                            request_of(request[1], request[2]), SEND_RETRIES)
                   ELSE [ Idle EXCEPT !.op = "run", !.pc = "rnb",
                                      !.handlers = handlers ] ]
    /\ rx = [ p \in Proc |-> << >> ]
    /\ io = [ p \in Proc |-> << >> ]
    /\ env = [ EnvIdle EXCEPT !.link = "channel" ]

NextE2E ==
    \/ \E p \in Proc : SmNext(p)
    \/ \E p \in Proc : SwaSend(p)
    \/ \E p \in Proc : SwaGiveUp(p)
    \/ \E p \in Proc : SwaRead(p)
    \/ \E p \in Proc : SwaTimeout(p)
    \/ \E p \in Proc : RmRecv(p)
    \/ RunNonBlocking("b")
    \/ RnbInvalidRequest("b")

SpecE2E == InitE2E /\ [][NextE2E]_vars

\* ------------------------------------------ scenario: a client on a MockUart
RECURSIVE FramesFrom(_, _, _)
\* the frames send_multiple_packets_with_ack writes for data from its k-th
\* chunk on, each once
FramesFrom(data, k, sequence) ==
    IF HasChunk(data, k)
    THEN to_bytes(Packet_new(packet_data(sequence, Chunk(data, k))))
             \o FramesFrom(data, k + 1, next_sequence(sequence))
    ELSE << >>

Frames(data) == FramesFrom(data, 0, 0)

\* n arguments of no bytes
EmptyArgs(n) == [ i \in 1 .. n |-> << >> ]

\* responses as create_response builds them: those of the tests of the client,
\* the two of the server without a handler call, one of an empty argument, one
\* of an argument of 255 bytes, one of 255 arguments and one of 256
Responses ==
    { << InvalidRequest, << << 1, 2, 3 >> >> >>,
      << InvalidRequest, << << 1, 2, 3 >>, << 1, 2, 4, 3, 5 >> >> >>,
      << InvalidRequest, << >> >>,
      << HandlerNotFound, << >> >>,
      << InternalError, << << >> >> >>,
      << Success, << Fill(1, U8 - 1) >> >>,
      << Success, EmptyArgs(U8 - 1) >>,
      << Success, EmptyArgs(U8) >> }

\* buffers that no create_response builds: no byte, no count, a count of one
\* and no argument, an argument shorter than its length, a second argument
\* that is not there, and a byte after the last argument
OtherBuffers ==
    { << >>, << 0 >>, << 0, 1 >>, << 0, 1, 3, 1, 2 >>, << 0, 2, 1, 9 >>, << 0, 0, 7 >> }

ResponseBuffers ==
    { create_response(r[1], r[2]) : r \in Responses } \cup OtherBuffers

\* what set_read_data is given: the ACK of the request and the frames of a
\* response, or nothing
ClientReadData ==
    { << ACK_BYTE >> \o (IF response = << >> THEN RequestFrame(response)
                          ELSE Frames(response)) : response \in ResponseBuffers }
        \cup { << >> }

InitClient ==
    /\ codec = CodecIdle
    /\ \E request \in E2ERequests :
          st = [ p \in Proc |->
                   IF p = "a"
                   THEN send_multiple_call(
                            [ Idle EXCEPT !.op = "send_request",
                                          !.command = request[1], !.args = request[2] ],
                            request_of(request[1], request[2]), SEND_RETRIES)
                   ELSE Idle ]
    /\ \E read_data \in ClientReadData :
          rx = [ p \in Proc |-> IF p = "a" THEN read_data ELSE << >> ]
    /\ io = [ p \in Proc |-> << >> ]
    /\ env = EnvIdle

NextClient ==
    \/ SmNext("a")
    \/ SwaSend("a")
    \/ SwaSendFails("a")
    \/ SwaGiveUp("a")
    \/ SwaRead("a")
    \/ SwaTimeout("a")
    \/ RmRecv("a")

SpecClient == InitClient /\ [][NextClient]_vars

\* ------------------------------------------------------------------- claims
\* what an observer of the line reads off a trace or a frame
Last(t) == t[Len(t)]

\* the index of the last call event of trace t, 0 if it has none
LastCallAt(t) ==
    IF \E i \in 1 .. Len(t) : t[i].op = "call"
    THEN CHOOSE i \in 1 .. Len(t) :
            /\ t[i].op = "call"
            /\ \A j \in (i + 1) .. Len(t) : t[j].op # "call"
    ELSE 0

\* the events of trace t since its last call event
SinceCall(t) == SubSeq(t, LastCallAt(t) + 1, Len(t))

\* how many events of trace t are the read of byte b
ReadsOf(t, b) == Len(SelectSeq(t, LAMBDA e : e.op = "read" /\ e.bytes = << b >>))

\* how many events of trace t are of kind op
EventsOf(t, op) == Len(SelectSeq(t, LAMBDA e : e.op = op))

\* the sequence byte a frame carries: the first byte of its unescaped payload
SeqByteOf(frame) ==
    IF frame[3] = ESCAPE_BYTE THEN BitXor(frame[4], ESCAPE_XOR) ELSE frame[3]

\* the unescaped payload a frame carries
FragPayload(frame) == unescape_payload(SubSeq(frame, 3, Len(frame) - 2))

\* n copies of frame
Repeat(frame, n) == EventBytes([ i \in 1 .. n |-> WriteEvent(frame) ], "write", 1, n)

\* the response the server's dispatch computes for the client's request
Dispatched(l) ==
    IF l.command \in DOMAIN handlers
    THEN SbtResponse_new(Success, l.args)
    ELSE SbtResponse_new(HandlerNotFound, << >>)

\* the frame that carries that response as a single fragment
ResponseFrame(l) ==
    to_bytes(Packet_new(packet_data(0,
        create_response(Dispatched(l).response_code, Dispatched(l).args))))

\* the server has received the client's request and written its response, and
\* the client, still in its call, has read the start of that frame
Answered ==
    /\ \E i \in 1 .. Len(io["b"]) : io["b"][i] = WriteEvent(ResponseFrame(st["a"]))
    /\ ReadsOf(io["a"], START_BYTE) > 0

\* C1: when send_request is over, against a server that runs its loop at the
\* other end of the channel and has answered the request, it has returned Ok
\* with the response the server's dispatch computes: Success and the echoed
\* arguments for the echo command, HandlerNotFound and no arguments for a
\* command without a handler.
C1_ClientGetsResponse ==
    ( /\ st["a"].op = "send_request" /\ st["a"].pc \in { "done", "panicked" }
      /\ Answered )
    => ( /\ st["a"].pc = "done"
         /\ st["a"].result.ok
         /\ st["a"].result.val = Dispatched(st["a"]) )

\* C2: when send_multiple_packets_with_ack returned Ok and the frames it wrote
\* reach receive_multiple_packets unchanged and in order, the receiver returns
\* Ok with the sender's buffer.
C2_RoundTrip ==
    ( /\ st["b"].op = "receive_multiple" /\ st["b"].pc = "done"
      /\ Calls("a") = 1 /\ Calls("b") = 1
      /\ st["a"].result.ok
      /\ env.lost = 0 )
    => ( st["b"].result.ok /\ st["b"].result.val = st["a"].data )

\* C3: a payload whose escaped form fits the length byte survives
\* Packet::new, to_bytes and from_bytes.
C3_CodecRoundTrip ==
    ( /\ codec.stage = "parsed"
      /\ codec.tampered = 0
      /\ Len(escape_payload(codec.payload)) <= 255 )
    => ( codec.parsed.ok /\ codec.parsed.val.payload = codec.payload )

\* C4: send_packet_with_ack that never reads an ACK, on a Uart whose writes
\* succeed, returns, having written the packet exactly `retries` times, with
\* the error of exhausted retries.
C4_NoAckSafety ==
    ( /\ st["a"].op = "send_packet_with_ack" /\ st["a"].pc = "done"
      /\ ReadsOf(io["a"], ACK_BYTE) = 0
      /\ EventsOf(io["a"], "write_failed") = 0 )
    => ( /\ get_written_data("a")
               = Repeat(to_bytes(st["a"].packet), st["a"].retries)
         /\ ~st["a"].result.ok
         /\ st["a"].result.err = "Failed to send packet after retries" )

\* C4: send_packet_with_ack terminates, and when it has read no ACK (and no
\* write failed) it has written the packet exactly `retries` times and returns
\* the error of exhausted retries.
C4_NoAckExhaustsRetries ==[] C4_NoAckSafety /\ <>(st["a"].pc = "done")

\* a run of three transmissions that read a NACK and another byte, never an
\* ACK, and gave up
C4_Witness ==
    /\ st["a"].op = "send_packet_with_ack" /\ st["a"].pc = "done"
    /\ st["a"].retries = 3
    /\ ReadsOf(io["a"], ACK_BYTE) = 0
    /\ ReadsOf(io["a"], NACK_BYTE) > 0 /\ ReadsOf(io["a"], OTHER_BYTE) > 0
    /\ EventsOf(io["a"], "write") = 3

\* C5: once send_packet_with_ack has read an ACK it has returned Ok: the ACK
\* is the last thing it did on the Uart, and it wrote the packet once per
\* window it went through (the windows ended by a NACK or a timeout, plus the
\* one the ACK came in), at most `retries` times.
C5_AckReturnsAtOnce ==
    ( /\ st["a"].op = "send_packet_with_ack"
      /\ ReadsOf(io["a"], ACK_BYTE) > 0 )
    => ( /\ st["a"].pc = "done" /\ st["a"].result.ok
         /\ Last(io["a"]) = ReadEvent(<< ACK_BYTE >>)
         /\ ReadsOf(io["a"], ACK_BYTE) = 1
         /\ get_written_data("a")
               = Repeat(to_bytes(st["a"].packet),
                        1 + ReadsOf(io["a"], NACK_BYTE) + EventsOf(io["a"], "timeout"))
         /\ EventsOf(io["a"], "write") <= st["a"].retries )

\* the ACK came in the second window, after a byte that is neither ACK nor
\* NACK, and the line holds a byte after it
C5_Witness ==
    /\ st["a"].op = "send_packet_with_ack" /\ st["a"].pc = "done"
    /\ st["a"].result.ok
    /\ EventsOf(io["a"], "write") = 2
    /\ Len(io["a"]) >= 2
    /\ io["a"][Len(io["a"]) - 1] = ReadEvent(<< OTHER_BYTE >>)
    /\ rx["a"] # << >>

\* C6: send_multiple_packets_with_ack on an empty buffer that returned Ok wrote
\* one fragment, whose payload is the sequence byte 0 alone.
C6_EmptyBufferSendsOneFragment ==
    ( /\ st["a"].op = "send_multiple" /\ st["a"].pc = "done"
      /\ st["a"].data = << >> /\ st["a"].result.ok )
    => ( /\ EventsOf(SinceCall(io["a"]), "write") = 1
         /\ \A i \in 1 .. Len(io["a"]) :
               io["a"][i].op = "write" => FragPayload(io["a"][i].bytes) = << 0 >> )

\* C7: the frame send_multiple_packets_with_ack wrote last carries an unescaped
\* payload, sequence byte included, of at most 250 bytes.
C7_FragmentAtMost250 ==
    ( /\ st["a"].op = "send_multiple"
      /\ io["a"] # << >> /\ Last(io["a"]).op = "write" )
    => Len(FragPayload(Last(io["a"]).bytes)) <= 250

\* C8: the frame send_multiple_packets_with_ack wrote last carries, as its
\* sequence byte, the number of ACKs the call has read so far modulo 256 (0 for
\* the first frame of every call, the same byte for a retransmission); and a
\* call of receive_multiple_packets accepts as its first fragment only one of
\* sequence byte 0.
C8_SequenceBytes ==
    /\ ( /\ st["a"].op = "send_multiple"
         /\ io["a"] # << >> /\ Last(io["a"]).op = "write" )
       => SeqByteOf(Last(io["a"]).bytes)
             = ReadsOf(SinceCall(io["a"]), ACK_BYTE) % 256
    /\ ( /\ st["b"].op = "receive_multiple"
         /\ Len(SinceCall(io["b"])) = 1
         /\ st["b"].pc = "rm_recv" \/ st["b"].result.ok )
       => SeqByteOf(Last(io["b"]).bytes) = 0

\* the second fragment of a buffer goes out again, after a window that ended
\* without an ACK, with sequence byte 1
C8_Witness ==
    /\ st["a"].op = "send_multiple" /\ st["a"].pc = "swa_wait"
    /\ st["a"].attempt = 1
    /\ Last(io["a"]).op = "write"
    /\ ReadsOf(io["a"], ACK_BYTE) = 1
    /\ SeqByteOf(Last(io["a"]).bytes) = 1

\* the receiver's call is over with the error of a fragment out of order
OutOfOrder(l) ==
    l.pc = "done" /\ ~l.result.ok /\ l.result.err = "Packet sequence out of order"

\* the frame is one receive_packet returns, with a sequence byte other than n mod 256
Unexpected(frame, n) ==
    /\ from_bytes(frame).ok
    /\ from_bytes(frame).val.payload # << >>
    /\ from_bytes(frame).val.payload[1] # n % 256

\* C9: receive_multiple_packets ends with the error of a fragment out of order
\* exactly when the packet it received last carries a sequence byte other than
\* the number of packets the call accepted before it, modulo 256; it then
\* returns no data, and that packet is the last thing the call read.
C9_OutOfOrder ==
    ( st["b"].op = "receive_multiple" /\ SinceCall(io["b"]) # << >> )
    => ( /\ OutOfOrder(st["b"])
            <=> Unexpected(Last(io["b"]).bytes, Len(SinceCall(io["b"])) - 1)
         /\ OutOfOrder(st["b"]) => st["b"].result.val = << >> )

\* a retransmitted copy of the fragment just accepted is refused
C9_Witness ==
    /\ st["b"].op = "receive_multiple" /\ OutOfOrder(st["b"])
    /\ Calls("b") = 1
    /\ Len(io["b"]) = 2
    /\ io["b"][1] = io["b"][2]
    /\ rx["b"] # << >>

\* C10: a buffer of at least 4 bytes between the two delimiters is refused with
\* the checksum error exactly when the wrapping sum of the bytes between its
\* length byte and its checksum byte differs from its checksum byte.
C10_ChecksumOverEscaped ==
    ( /\ codec.stage = "parsed"
      /\ Len(codec.bytes) >= 4
      /\ codec.bytes[1] = START_BYTE
      /\ codec.bytes[Len(codec.bytes)] = END_BYTE )
    => ( ( ~codec.parsed.ok /\ codec.parsed.err = "Checksum mismatch" )
         <=> calculate_checksum(SubSeq(codec.bytes, 3, Len(codec.bytes) - 2))
                # codec.bytes[Len(codec.bytes) - 1] )

\* the buffer lacks the structure of a frame
Malformed(bytes) ==
    \/ Len(bytes) < 4
    \/ bytes[1] # START_BYTE
    \/ bytes[Len(bytes)] # END_BYTE

\* C11: from_bytes on a buffer shorter than 4 bytes, or whose first byte is not
\* START_BYTE, or whose last byte is not END_BYTE, returns the error of an
\* invalid structure, whatever its checksum byte: never the checksum error and
\* never a packet.
C11_MalformedFirst ==
    ( codec.stage = "parsed" /\ Malformed(codec.bytes) )
    => ( ~codec.parsed.ok /\ codec.parsed.err = "Invalid packet structure" )

\* a buffer of four bytes that lacks only the end delimiter, and whose checksum
\* byte is the sum of its (empty) payload, was refused
C11_Witness ==
    /\ codec.stage = "parsed"
    /\ codec.bytes = << START_BYTE, 0, 0, 1 >>
    /\ ~codec.parsed.ok

\* the bytes endpoint p has read so far
ReadSoFar(p) == EventBytes(io[p], "read", 1, Len(io[p]))

\* what the read data of endpoint p was when its call began
ReadDataOf(p) == ReadSoFar(p) \o rx[p]

\* sequence s begins with sequence t
StartsWith(s, t) == Len(s) >= Len(t) /\ SubSeq(s, 1, Len(t)) = t

\* none of the three reserved bytes is in payload
NoReserved(payload) ==
    \A i \in 1 .. Len(payload) : payload[i] \notin { START_BYTE, END_BYTE, ESCAPE_BYTE }

\* C12: when the read data began with the bytes of a packet whose payload, of
\* at most 255 bytes, holds no reserved byte, receive_packet has returned that
\* payload, having read the bytes of that packet and no more.
C12_ReceiveOneFrame ==
    ( /\ st["b"].op = "receive_packet" /\ st["b"].pc = "done"
      /\ NoReserved(st["b"].packet.payload)
      /\ Len(st["b"].packet.payload) <= 255
      /\ StartsWith(ReadDataOf("b"), to_bytes(st["b"].packet)) )
    => ( /\ st["b"].result.ok
         /\ st["b"].result.val.payload = st["b"].packet.payload
         /\ ReadSoFar("b") = to_bytes(st["b"].packet) )

\* C13: receive_packet returns, and when it has returned without having read
\* an END_BYTE it has returned the error of a failed receive, at the first
\* None of read(), and no packet.
C13_NoEndSafety ==
    ( /\ st["b"].op = "receive_packet" /\ st["b"].pc = "done"
      /\ ReadsOf(io["b"], END_BYTE) = 0 )
    => ( /\ ~st["b"].result.ok
         /\ st["b"].result.err = "Failed to receive packet"
         /\ EventsOf(io["b"], "none") = 1
         /\ Last(io["b"]) = NoneEvent )

\* C13: receive_packet terminates, and without an END_BYTE read it fails with
\* the error of a failed receive at the first None of read().
C13_NoDataFails ==[] C13_NoEndSafety /\ <>(st["b"].pc = "done")

\* the read data of test_receive_packet_failure, cut before the checksum, was
\* read to its end and the call failed
C13_Witness ==
    /\ st["b"].op = "receive_packet" /\ st["b"].pc = "done"
    /\ ReadSoFar("b") = << START_BYTE, 3, 1, 2 >>
    /\ ~st["b"].result.ok

\* the calls of add_handler in log that named command
RegistrationsOf(log, command) == SelectSeq(log, LAMBDA r : r[1] = command)

\* the handler the last of them registered
LastRegistered(log, command) == Last(RegistrationsOf(log, command))[2]

\* C14: process_request returns [InvalidRequest, 0] for the empty request,
\* [HandlerNotFound, 0] for a request whose first byte no add_handler call
\* named, and else the bytes that the handler of the last add_handler call for
\* that byte returns for the rest of the request.
C14_Dispatch ==
    ( st["b"].op = "process_request" /\ st["b"].pc = "done" )
    => ( /\ st["b"].result.ok
         /\ st["b"].result.val =
               IF st["b"].request = << >>
               THEN << 1, 0 >>
               ELSE IF RegistrationsOf(st["b"].registered, st["b"].request[1]) = << >>
               THEN << 2, 0 >>
               ELSE handler_call(LastRegistered(st["b"].registered, st["b"].request[1]),
                                 Tail(st["b"].request)) )

\* command 1 was registered with the echo handler and then again with the
\* handler of InternalError, and a request for it was answered by the latter
C14_Witness ==
    /\ st["b"].op = "process_request" /\ st["b"].pc = "done"
    /\ st["b"].registered = << << 1, "echo" >>, << 0, "success" >>, << 1, "internal_error" >> >>
    /\ st["b"].request = << 1, 3 >>
    /\ st["b"].result.val = << InternalError >>

\* the server's loop has got Ok(()) from the call of run_non_blocking it made
\* last
CycleReturnedOk(l) == l.op = "run" /\ l.pc = "rnb" /\ l.cycles > 0

\* every event of trace t but the last is a read
ReadsThenOne(t) == \A i \in 1 .. (Len(t) - 1) : t[i].op = "read"

\* C15: a call of run_non_blocking whose receive_request failed, for whatever
\* reason, and that has returned did one write, of the single byte
\* InvalidRequest, as the last thing it did on the Uart: it read nothing after
\* it, waited through no window, wrote nothing else and invoked no handler.
C15_RawInvalidRequest ==
    ( CycleReturnedOk(st["b"]) /\ ~st["b"].received.ok )
    => ( /\ SinceCall(io["b"]) # << >>
         /\ Last(SinceCall(io["b"])) = WriteEvent(<< 1 >>)
         /\ ReadsThenOne(SinceCall(io["b"]))
         /\ st["b"].invoked = << >> )

\* the second call of run_non_blocking received a frame whose checksum is
\* wrong, after a first call that answered a request
C15_Witness ==
    /\ CycleReturnedOk(st["b"]) /\ st["b"].cycles = 2
    /\ ~st["b"].received.ok /\ st["b"].received.err = "Checksum mismatch"
    /\ EventsOf(io["b"], "write") = 2

\* C16: a call of run_non_blocking returns Ok(()) to the loop only if neither
\* its receive_request nor its send_response failed: the request was received
\* and the last thing the call did was to read the ACK of the response.
C16_ReportsFailure ==
    CycleReturnedOk(st["b"])
    => ( /\ st["b"].received.ok
         /\ Last(io["b"]) = ReadEvent(<< ACK_BYTE >>) )

\* C17: the loop of run does not end because the response of a cycle was not
\* acknowledged: run has not returned the error of exhausted retries, and goes
\* on to call run_non_blocking for the requests that follow.
C17_LoopSurvives ==
    st["b"].op = "run"
    => ~( /\ st["b"].pc = "done"
          /\ st["b"].result.err = "Failed to send packet after retries" )

\* C18: send_request never aborts on the buffer receive_multiple_packets
\* returned to it: whatever that buffer holds, the call returns a value.
C18_NoAbort ==
    ( st["a"].op = "send_request" /\ st["a"].received.ok )
    => st["a"].pc = "done"

\* at most 255 arguments, each of at most 255 bytes
FitsU8(args) ==
    /\ Len(args) <= 255
    /\ \A i \in 1 .. Len(args) : Len(args[i]) <= 255

\* C19: when the buffer receive_multiple_packets returned to send_request is
\* create_response(status, args), for at most 255 arguments of at most 255
\* bytes each, send_request has returned Ok with that status and those
\* arguments, in the same order.
C19_ParseRoundTrip ==
    \A r \in Responses :
       ( /\ st["a"].op = "send_request" /\ st["a"].received.ok
         /\ st["a"].received.val = create_response(r[1], r[2])
         /\ FitsU8(r[2]) )
       => ( /\ st["a"].pc = "done"
            /\ st["a"].result = Ok(SbtResponse_new(r[1], r[2])) )

\* the response of 255 arguments, which came in two fragments, was returned
C19_Witness ==
    /\ st["a"].op = "send_request" /\ st["a"].pc = "done"
    /\ st["a"].result.ok
    /\ Len(st["a"].result.val.args) = 255
    /\ Len(st["a"].received.val) > max_payload_size

\* C20: once a write of send_request has failed, the call has returned the
\* error of a failed send: that write is the only one that failed and the last
\* thing the call did on the Uart, so that nothing was sent again and nothing
\* read, no response either.
C20_WriteFailureReturns ==
    ( st["a"].op = "send_request" /\ EventsOf(io["a"], "write_failed") > 0 )
    => ( /\ st["a"].pc = "done"
         /\ st["a"].result = Err("Failed to send packet")
         /\ EventsOf(io["a"], "write_failed") = 1
         /\ Last(io["a"]).op = "write_failed" )

\* the second transmission of the request failed, with the ACK and a response
\* still to be read
C20_Witness ==
    /\ st["a"].op = "send_request" /\ st["a"].pc = "done"
    /\ EventsOf(io["a"], "write") = 1
    /\ Last(io["a"]).op = "write_failed"
    /\ rx["a"] # << >> /\ Head(rx["a"]) = ACK_BYTE

\* C21: what escape_payload returns for a payload, of any byte values, holds
\* neither START_BYTE nor END_BYTE, and unescape_payload takes it back to the
\* payload.
C21_EscapeRoundTrip ==
    /\ codec.stage \in { "escaped", "unescaped" }
       => \A i \in 1 .. Len(codec.bytes) : codec.bytes[i] \notin { 126, 127 }
    /\ codec.stage = "unescaped" => codec.unescaped = codec.payload

\* the three reserved bytes in a row went through both
C21_Witness ==
    /\ codec.stage = "unescaped"
    /\ codec.payload = << ESCAPE_BYTE, START_BYTE, END_BYTE >>
    /\ Len(codec.bytes) = 6
    /\ codec.unescaped = codec.payload

\* the index of the last write event of trace t before its i-th event, 0 if
\* there is none
WriteBefore(t, i) ==
    IF \E j \in 1 .. (i - 1) : t[j].op = "write"
    THEN CHOOSE j \in 1 .. (i - 1) :
            /\ t[j].op = "write"
            /\ \A k \in (j + 1) .. (i - 1) : t[k].op # "write"
    ELSE 0

\* the write that ends trace t, which is not the first of the trace, follows
\* the read of an ACK at once and carries the sequence byte after the one of
\* the write before it, or else is the same frame as the write before it
NextAfterAck(t, w) ==
    IF t[Len(t) - 1] = ReadEvent(<< ACK_BYTE >>)
    THEN SeqByteOf(Last(t).bytes) = (SeqByteOf(t[w].bytes) + 1) % 256
    ELSE Last(t).bytes = t[w].bytes

\* send_multiple_packets_with_ack has returned the error of exhausted retries
GaveUp(l) ==
    l.pc = "done" /\ ~l.result.ok /\ l.result.err = "Failed to send packet after retries"

\* C22: a frame that a call of send_multiple_packets_with_ack writes after
\* another is the next fragment only if the call has just read an ACK, and
\* else the same fragment again; and when the call has returned the error of
\* exhausted retries, the last frame it wrote is the fragment it failed on,
\* whose sequence byte is the number of ACKs it read: no fragment of a higher
\* sequence number was written.
C22_StopAndWait ==
    st["a"].op = "send_multiple"
    => /\ ( /\ SinceCall(io["a"]) # << >>
            /\ Last(io["a"]).op = "write"
            /\ WriteBefore(SinceCall(io["a"]), Len(SinceCall(io["a"]))) # 0 )
          => NextAfterAck(SinceCall(io["a"]),
                          WriteBefore(SinceCall(io["a"]), Len(SinceCall(io["a"]))))
       /\ GaveUp(st["a"])
          => /\ Last(io["a"]) # ReadEvent(<< ACK_BYTE >>)
             /\ SeqByteOf(io["a"][WriteBefore(io["a"], Len(io["a"]) + 1)].bytes)
                   = ReadsOf(SinceCall(io["a"]), ACK_BYTE) % 256

\* the first fragment was acknowledged and the second never: the call gave up
\* after four writes
C22_Witness ==
    /\ st["a"].op = "send_multiple" /\ GaveUp(st["a"])
    /\ ReadsOf(io["a"], ACK_BYTE) = 1
    /\ EventsOf(io["a"], "write") = 4
    /\ SeqByteOf(io["a"][WriteBefore(io["a"], Len(io["a"]) + 1)].bytes) = 1

\* the bytes of a frame between its length byte and its checksum byte
EscapedOf(frame) == SubSeq(frame, 3, Len(frame) - 2)

\* C23: the frame send_multiple_packets_with_ack wrote last holds at most 255
\* bytes between its length byte and its checksum byte; its length byte is
\* their number and its checksum byte their wrapping sum.
C23_LengthFits ==
    ( /\ st["a"].op = "send_multiple"
      /\ io["a"] # << >> /\ Last(io["a"]).op = "write" )
    => ( /\ Len(EscapedOf(Last(io["a"]).bytes)) <= 255
         /\ Last(io["a"]).bytes[2] = Len(EscapedOf(Last(io["a"]).bytes))
         /\ Last(io["a"]).bytes[Len(Last(io["a"]).bytes) - 1]
               = calculate_checksum(EscapedOf(Last(io["a"]).bytes)) )

RECURSIVE DataParts(_, _, _)
\* the payloads, less their sequence bytes, of the frames that the events
\* lo..hi of trace t read, in order
DataParts(t, lo, hi) ==
    IF lo > hi THEN << >>
    ELSE IF lo = hi THEN Tail(FragPayload(t[lo].bytes))
    ELSE DataParts(t, lo, (lo + hi) \div 2)
             \o DataParts(t, ((lo + hi) \div 2) + 1, hi)

\* the i-th event of trace t read a frame that receive_packet returns and that
\* carries the sequence byte expected of the i-th fragment
InOrder(t, i) ==
    /\ from_bytes(t[i].bytes).ok
    /\ from_bytes(t[i].bytes).val.payload # << >>
    /\ from_bytes(t[i].bytes).val.payload[1] = (i - 1) % 256

\* C24: a call of receive_multiple_packets goes on to receive another frame
\* exactly while the fragment it received last is in order and has a payload,
\* sequence byte included, of 250 bytes or more; it returns Ok at the first
\* fragment in order that is shorter, with the data of all the fragments it
\* read; and when no frame comes after a full fragment it fails.
C24_StopsAtShortFragment ==
    ( st["b"].op = "receive_multiple" /\ SinceCall(io["b"]) # << >> )
    => ( /\ st["b"].pc = "rm_recv"
            <=> ( /\ InOrder(SinceCall(io["b"]), Len(SinceCall(io["b"])))
                  /\ Len(FragPayload(Last(io["b"]).bytes)) >= 250 )
         /\ ( st["b"].pc = "done" /\ st["b"].result.ok )
            <=> ( /\ InOrder(SinceCall(io["b"]), Len(SinceCall(io["b"])))
                  /\ Len(FragPayload(Last(io["b"]).bytes)) < 250 )
         /\ ( st["b"].pc = "done" /\ st["b"].result.ok )
            => st["b"].result.val
                  = DataParts(SinceCall(io["b"]), 1, Len(SinceCall(io["b"])))
         /\ Last(io["b"]).bytes = << >>
            => ( /\ st["b"].pc = "done" /\ ~st["b"].result.ok
                 /\ st["b"].result.err = "Failed to receive packet" ) )

\* the call returned the 600 bytes of three fragments, the last one short
C24_Witness ==
    /\ st["b"].op = "receive_multiple" /\ st["b"].pc = "done"
    /\ st["b"].result.ok
    /\ Len(io["b"]) = 3
    /\ Len(st["b"].result.val) = 600

\* C25: process_request on a request whose first byte has a handler invoked
\* that handler once, with the request less its first byte, and returned what
\* that invocation returned.
C25_HandlerOnce ==
    ( /\ st["b"].op = "process_request" /\ st["b"].pc = "done"
      /\ st["b"].request # << >>
      /\ st["b"].request[1] \in DOMAIN st["b"].handlers )
    => ( /\ st["b"].invoked = << Tail(st["b"].request) >>
         /\ st["b"].result.val
               = handler_call(st["b"].handlers[st["b"].request[1]], Tail(st["b"].request)) )

\* the call has just read a NACK in the window of its last attempt
NackOnLast ==
    /\ st["a"].op = "send_packet_with_ack"
    /\ io["a"] # << >> /\ Last(io["a"]) = ReadEvent(<< NACK_BYTE >>)
    /\ EventsOf(io["a"], "write") = st["a"].retries

\* C26: what send_packet_with_ack does next on the Uart after the read of a
\* NACK is a transmission of the packet: it reads nothing more in that window
\* and does not wait for its end; it never transmits more than `retries`
\* times, the transmissions after a NACK included; and after a NACK in the
\* window of the last attempt it has no transmission left and returns nothing
\* but the error of exhausted retries.
C26_NackSafety ==
    st["a"].op = "send_packet_with_ack"
    => ( /\ \A i \in 1 .. (Len(io["a"]) - 1) :
               io["a"][i] = ReadEvent(<< NACK_BYTE >>)
               => io["a"][i + 1].op \in { "write", "write_failed" }
         /\ EventsOf(io["a"], "write") <= st["a"].retries
         /\ ( io["a"] # << >> /\ Last(io["a"]) = ReadEvent(<< NACK_BYTE >>) )
            => ( /\ st["a"].pc \in { "swa_send", "done" }
                 /\ st["a"].attempt = EventsOf(io["a"], "write") )
         /\ ( NackOnLast /\ st["a"].pc = "done" ) => GaveUp(st["a"]) )

\* C26: a NACK ends the window at once and the packet goes out again, within
\* the `retries` transmissions of the call; a NACK in the window of the last
\* attempt leads to the error of exhausted retries.
C26_NackRetransmits ==[] C26_NackSafety /\ (NackOnLast ~> GaveUp(st["a"]))

\* three transmissions, each answered by a NACK, and the call gave up
C26_Witness ==
    /\ st["a"].op = "send_packet_with_ack" /\ GaveUp(st["a"])
    /\ st["a"].retries = 3
    /\ EventsOf(io["a"], "write") = 3
    /\ ReadsOf(io["a"], NACK_BYTE) = 3
    /\ Len(io["a"]) = 6

\* C27: an endpoint that runs receive_packet or receive_multiple_packets does
\* nothing on its Uart but read: it writes no byte, so no ACK and no NACK,
\* whatever the frames it receives and whatever it returns.
C27_ReceiveOnlyReads ==
    \A p \in Proc :
       st[p].op \in { "receive_packet", "receive_multiple" }
       => \A i \in 1 .. Len(io[p]) : io[p][i].op \in { "read", "none", "call" }

\* the receiver refused a frame for its checksum, after the sender had
\* returned Ok, and wrote nothing
C27_Witness ==
    /\ st["b"].op = "receive_multiple" /\ st["b"].pc = "done"
    /\ ~st["b"].result.ok /\ st["b"].result.err = "Checksum mismatch"
    /\ st["a"].result.ok
    /\ Len(io["b"]) = 1 /\ io["b"][1].op = "read"
    /\ EventsOf(io["b"], "write") = 0

=============================================================================
